---------------------------- MODULE Spec2Model ----------------------------
(***************************************************************************)
(* Model of pyint/pyinttestdroid.py.                                       *)
(*                                                                         *)
(* Two layers are modelled:                                                *)
(*   - the command executor: run_command / _run_once and the supervising   *)
(*     thread Run started for every attempt (specification Spec);          *)
(*   - the device session: DeviceUnderTest and its operations, which call  *)
(*     run_command sequentially (specification SpecDev).                   *)
(***************************************************************************)
EXTENDS Integers, Sequences, FiniteSets, TLC

----------------------------------------------------------------------------
(* Bounds of the model *)

\* number of run_command calls made one after the other in a behaviour
MaxCalls == 2
\* retry budgets handed to run_command: 0..MaxRetry
MaxRetry == 2
\* timeouts handed to run_command: None or 0..MaxTimeout clock ticks
MaxTimeout == 1
\* supervising threads ever started in a behaviour
MaxThreads == 3

----------------------------------------------------------------------------
(* Text values.  A text is a sequence of characters; a Python value that   *)
(* is either a str or None is a record.                                    *)

None == [kind |-> "None", text |-> <<>>]

Str(s) == [kind |-> "str", text |-> s]

\* the texts an external command is taken to print
OutEmpty  == <<>>
OutListing == <<"d", "r", "w", "x">>
OutOffline == <<"e", "r", "r", "o", "r", ":", " ", "o", "f", "f">>
OutNoneMid == <<"x", "N", "o", "n", "e", "x">>
OutLowerNone == <<"n", "o", "n", "e">>
OutUpperError == <<"E", "r", "r", "o", "r">>
OutErro == <<"e", "r", "r", "o">>

Outputs == {OutEmpty, OutListing, OutOffline, OutNoneMid, OutLowerNone,
            OutUpperError, OutErro}

\* the texts communicate() hands to Run: nothing, or some text
ProcessTexts == {OutEmpty, OutListing}

\* the text Run appends when communicate() raises OSError
ErrorText == <<"E", "R", "R", "O", "R">>

\* str(x): None prints as the four characters N o n e
PyStr(v) == IF v.kind = "None" THEN <<"N", "o", "n", "e">> ELSE v.text

\* "".join(so)
RECURSIVE JoinAll(_)
JoinAll(ss) == IF ss = <<>> THEN <<>> ELSE Head(ss) \o JoinAll(Tail(ss))

\* s starts with needle
StartsWith(s, needle) ==
    /\ Len(needle) <= Len(s)
    /\ SubSeq(s, 1, Len(needle)) = needle

\* variant: the marker is looked for at the start of the text only
Contains_prefixOnly(s, needle) == StartsWith(s, needle)

\* needle in s  (Python substring test on str, case-sensitive)
RECURSIVE Contains(_, _)
Contains(s, needle) ==
    IF Len(s) < Len(needle) THEN FALSE
    ELSE IF StartsWith(s, needle) THEN TRUE
    ELSE Contains(Tail(s), needle)

----------------------------------------------------------------------------
(* State of the command executor *)

VARIABLES
    rc_pc,           \* position of the calling thread in run_command/_run_once
    timeout_time,    \* run_command argument: NoTimeout (None) or Ticks(n)
    retry_count,     \* run_command local, decremented on a timeout
    budget,          \* retry_count as passed in by the caller
    result,          \* run_command local
    stop,            \* run_command local
    rc_error,        \* exception that left run_command, "none" if it returned
    attempt_log,     \* how every _run_once call of this run_command ended
    calls,           \* run_command calls made so far
    now,             \* time(), counted from the entry of the latest run_command
                     \* call: only differences of time() are ever read
    cmd_start_time,  \* _run_once local
    so,              \* _run_once local list, appended to by Run
    pid,             \* _run_once local list, appended to by Run
    break_loop,      \* _run_once local
    error_occurred,  \* module global _error_occurred
    threads,         \* every supervising thread started: its position and process
    cur,             \* the thread t of the current _run_once frame
    attempt_threads, \* threads started by the current run_command call
    kill_log         \* os.kill calls made: <<thread whose pid was signalled>>

execVars == <<rc_pc, timeout_time, retry_count, budget, result, stop, rc_error,
              attempt_log, calls, now, cmd_start_time, so, pid, break_loop,
              error_occurred, threads, cur, attempt_threads, kill_log>>

(* State of the device session (DeviceUnderTest) *)

VARIABLES
    is_usb,          \* self.is_usb
    serial_device,   \* self.serial_device: NoFd (None) or Fd(n)
    ir_remote,       \* self.ir_remote: "None" or "remote"
    open_fds,        \* descriptors of the serial console that are open
    fd_fault,        \* misuse of a descriptor by the operation called last:
                     \* "none", "double_close" or "use_after_close"
    d_stack,         \* call stack of the running operation: frames [fn, pc, ..]
    d_ret,           \* value returned by the frame that returned last
    d_state,         \* "idle", "running", "returned" or "raised"
    d_error,         \* exception that left the operation, "none" otherwise
    d_op,            \* operation called last
    d_log,           \* commands and probes issued for the current requested
                     \* action: one key press of press_nkey, else the whole call
    last_probe       \* output and verdict of the probe made by the last step

devVars == <<is_usb, serial_device, ir_remote, open_fds, fd_fault, d_stack,
             d_ret, d_state, d_error, d_op, d_log, last_probe>>

vars == <<execVars, devVars>>

\* timeout_time=None and timeout_time=n, n in clock ticks
NoTimeout == [kind |-> "None", n |-> 0]

Ticks(n) == [kind |-> "num", n |-> n]

Timeouts == {NoTimeout} \cup {Ticks(n) : n \in 0 .. MaxTimeout}

ThreadIds == 1 .. MaxThreads

\* the calling thread is inside _run_once, its locals so and pid exist
InFrame == rc_pc \in {"poll", "check", "kill", "sleep", "join"}

isAlive(t) == threads[t].pc \in {"start", "communicate"}

InitExec ==
    /\ rc_pc = "idle"
    /\ timeout_time = NoTimeout
    /\ retry_count = 0
    /\ budget = 0
    /\ result = None
    /\ stop = TRUE
    /\ rc_error = "none"
    /\ attempt_log = <<>>
    /\ calls = 0
    /\ now = 0
    /\ cmd_start_time = 0
    /\ so = <<>>
    /\ pid = <<>>
    /\ break_loop = FALSE
    /\ error_occurred = FALSE
    /\ threads = [t \in ThreadIds |-> [pc |-> "unborn", proc |-> "none", failed |-> FALSE]]
    /\ cur = 0
    /\ attempt_threads = {}
    /\ kill_log = <<>>

NoFd == [kind |-> "None", fd |-> 0]

Fd(n) == [kind |-> "fd", fd |-> n]

NoProbe == [site |-> "none", output |-> None, reachable |-> FALSE]

\* DeviceUnderTest.__init__ with is_usb = usb and ir_remote = ir
InitSession(usb, ir) ==
    /\ is_usb = usb
    /\ serial_device = NoFd
    /\ ir_remote = ir
    /\ open_fds = {}
    /\ fd_fault = "none"
    /\ d_stack = <<>>
    /\ d_ret = "None"
    /\ d_state = "idle"
    /\ d_error = "none"
    /\ d_op = "none"
    /\ d_log = <<>>
    /\ last_probe = NoProbe

Init == InitExec /\ InitSession(FALSE, "None")


----------------------------------------------------------------------------
(* run_command: the retry loop around _run_once *)

\* variant: a bare `except:` that swallows every exception of _run_once
Catches_all(err) == TRUE

\* variant: the handler names another exception and catches nothing
Catches_none(err) == FALSE

\* except WaitForResponseTimedOutError: the only exception run_command handles
Catches(err) == err = "WaitForResponseTimedOutError"

\* variant: `return result` dedented out of the loop, which then runs until
\* stop is False
LoopExits_dedented(stop_) == ~stop_

\* `return result` is a statement of the while body, at the indentation of
\* the try statement: the loop is left after its first pass whatever stop is
LoopExits(stop_) == TRUE

\* run_command(cmd, timeout_time, retry_count): entry up to the loop head
RunCommand(tmo, r) ==
    /\ rc_pc \in {"idle", "done"}
    /\ calls < MaxCalls
    /\ calls' = calls + 1
    /\ timeout_time' = tmo
    /\ retry_count' = r
    /\ budget' = r
    /\ result' = None
    /\ stop' = TRUE
    /\ rc_error' = "none"
    /\ attempt_log' = <<>>
    /\ attempt_threads' = {}
    /\ rc_pc' = "start"
    /\ now' = 0
    /\ UNCHANGED <<cmd_start_time, so, pid, break_loop, error_occurred,
                   threads, cur, kill_log>>
    /\ UNCHANGED devVars

\* the rest of the loop body once _run_once has returned value v
AfterReturn(v) ==
    /\ result' = v
    /\ rc_error' = "none"
    /\ rc_pc' = IF LoopExits(stop) THEN "done" ELSE IF stop THEN "start" ELSE "done"
    /\ UNCHANGED <<retry_count, stop>>

\* the rest of the loop body once _run_once has raised err
AfterRaise(err) ==
    IF Catches(err)
    THEN LET rc == retry_count - 1
             st == IF rc <= 0 THEN FALSE ELSE stop
         IN /\ retry_count' = rc
            /\ result' = None
            /\ stop' = st
            /\ rc_error' = "none"
            /\ rc_pc' = IF LoopExits(st) THEN "done" ELSE IF st THEN "start" ELSE "done"
    ELSE /\ rc_error' = err
         /\ rc_pc' = "done"
         /\ UNCHANGED <<retry_count, result, stop>>

----------------------------------------------------------------------------
(* _run_once: the calling thread *)

\* lines 614-652: reset the flag, create the lists, start the thread
RunOnceStart ==
    /\ rc_pc = "start"
    /\ cur < MaxThreads
    /\ cmd_start_time' = now
    /\ so' = <<>>
    /\ pid' = <<>>
    /\ error_occurred' = FALSE
    /\ cur' = cur + 1
    /\ threads' = [threads EXCEPT ![cur + 1].pc = "start"]
    /\ attempt_threads' = attempt_threads \cup {cur + 1}
    /\ break_loop' = FALSE
    /\ rc_pc' = "poll"
    /\ UNCHANGED <<timeout_time, retry_count, budget, result, stop, rc_error,
                   attempt_log, calls, now, kill_log>>
    /\ UNCHANGED devVars

\* line 656: if not t.isAlive(): break_loop = True
PollAlive ==
    /\ rc_pc = "poll"
    /\ break_loop' = ~isAlive(cur)
    /\ rc_pc' = "check"
    /\ UNCHANGED <<timeout_time, retry_count, budget, result, stop, rc_error,
                   attempt_log, calls, now, cmd_start_time, so, pid,
                   error_occurred, threads, cur, attempt_threads, kill_log>>
    /\ UNCHANGED devVars

\* variant: the deadline test is missing from the poll loop
DeadlinePassed_never == FALSE

\* variant: time() >= cmd_start_time + timeout_time
DeadlinePassed_inclusive ==
    /\ timeout_time # NoTimeout
    /\ now >= cmd_start_time + timeout_time.n

\* time() > cmd_start_time + timeout_time
DeadlinePassed ==
    /\ timeout_time # NoTimeout
    /\ now > cmd_start_time + timeout_time.n

\* lines 660-661 and 668: the deadline test and the loop exit
CheckTimeout ==
    /\ rc_pc = "check"
    /\ rc_pc' = IF break_loop THEN "join"
                ELSE IF DeadlinePassed THEN "kill"
                ELSE "sleep"
    /\ UNCHANGED <<timeout_time, retry_count, budget, result, stop, rc_error,
                   attempt_log, calls, now, cmd_start_time, so, pid, break_loop,
                   error_occurred, threads, cur, attempt_threads, kill_log>>
    /\ UNCHANGED devVars

\* variant: the timeout is raised without the os.kill call
KillAndRaise_noSignal ==
    /\ rc_pc = "kill"
    /\ attempt_log' = Append(attempt_log, "TimedOut")
    /\ retry_count' = retry_count - 1
    /\ result' = None
    /\ stop' = IF retry_count - 1 <= 0 THEN FALSE ELSE stop
    /\ rc_error' = "none"
    /\ rc_pc' = "done"
    /\ so' = <<>>
    /\ pid' = <<>>
    /\ UNCHANGED <<timeout_time, budget, calls, now, cmd_start_time, break_loop,
                   error_occurred, cur, attempt_threads, kill_log, threads>>
    /\ UNCHANGED devVars

\* lines 662-667: os.kill(pid[0], SIGKILL), then raise the timeout.  pid[0]
\* of an empty list raises IndexError, which no handler catches; OSError of
\* os.kill (no such process) is swallowed.
KillAndRaise ==
    /\ rc_pc = "kill"
    /\ IF pid = <<>>
       THEN /\ attempt_log' = Append(attempt_log, "IndexError")
            /\ rc_error' = "IndexError"
            /\ rc_pc' = "done"
            /\ UNCHANGED <<kill_log, threads, retry_count, result, stop>>
       ELSE /\ kill_log' = Append(kill_log, pid[1])
            /\ threads' = [threads EXCEPT ![pid[1]].proc =
                              IF @ = "running" THEN "killed" ELSE @]
            /\ attempt_log' = Append(attempt_log, "TimedOut")
            /\ AfterRaise("WaitForResponseTimedOutError")
    /\ so' = <<>>
    /\ pid' = <<>>
    /\ UNCHANGED <<timeout_time, budget, calls, now, cmd_start_time, break_loop,
                   error_occurred, cur, attempt_threads>>
    /\ UNCHANGED devVars

\* The clock is read only by the deadline test of the current frame, so it
\* is advanced only as long as that test can still change its answer.
ClockMatters ==
    /\ timeout_time # NoTimeout
    /\ now <= cmd_start_time + timeout_time.n

\* line 669: sleep(0.1)
Sleep ==
    /\ rc_pc = "sleep"
    /\ now' = IF ClockMatters THEN now + 1 ELSE now
    /\ rc_pc' = "poll"
    /\ UNCHANGED <<timeout_time, retry_count, budget, result, stop, rc_error,
                   attempt_log, calls, cmd_start_time, so, pid, break_loop,
                   error_occurred, threads, cur, attempt_threads, kill_log>>
    /\ UNCHANGED devVars

\* lines 671-676: t.join(), then AbortError if the flag is set, else the text
JoinAndReturn ==
    /\ rc_pc = "join"
    /\ ~isAlive(cur)
    /\ IF error_occurred
       THEN /\ attempt_log' = Append(attempt_log, "Aborted")
            /\ AfterRaise("AbortError")
       ELSE /\ attempt_log' = Append(attempt_log, "Completed")
            /\ AfterReturn(Str(JoinAll(so)))
    /\ so' = <<>>
    /\ pid' = <<>>
    /\ UNCHANGED <<timeout_time, budget, calls, now, cmd_start_time, break_loop,
                   error_occurred, threads, cur, attempt_threads, kill_log>>
    /\ UNCHANGED devVars

\* the clock moves on between any two statements of the calling thread
Tick ==
    /\ InFrame
    /\ ClockMatters
    /\ now' = now + 1
    /\ UNCHANGED <<rc_pc, timeout_time, retry_count, budget, result, stop,
                   rc_error, attempt_log, calls, cmd_start_time, so, pid,
                   break_loop, error_occurred, threads, cur, attempt_threads,
                   kill_log>>
    /\ UNCHANGED devVars

----------------------------------------------------------------------------
(* Run: the supervising thread, and the external process *)

ThreadUnchanged ==
    /\ UNCHANGED <<rc_pc, timeout_time, retry_count, budget, result, stop, rc_error,
                attempt_log, calls, now, cmd_start_time, break_loop, cur,
                attempt_threads, kill_log>>
    /\ UNCHANGED devVars

\* the lists so and pid of thread t are those of the current frame
OwnsFrame(t) == t = cur /\ InFrame

\* lines 630-637: subprocess.Popen(...) and pid.append(pipe.pid)
ThreadPopen(t) ==
    /\ threads[t].pc = "start"
    /\ threads' = [threads EXCEPT ![t].pc = "communicate", ![t].proc = "running"]
    /\ pid' = IF OwnsFrame(t) THEN Append(pid, t) ELSE pid
    /\ UNCHANGED <<so, error_occurred>>
    /\ ThreadUnchanged

\* line 630: Popen raises OSError (fork fails); nothing in Run catches it and
\* the thread ends without a process
ThreadPopenFails(t) ==
    /\ threads[t].pc = "start"
    /\ threads' = [threads EXCEPT ![t].pc = "dead"]
    /\ UNCHANGED <<so, pid, error_occurred>>
    /\ ThreadUnchanged

\* the external process ends by itself
ProcExit(t) ==
    /\ threads[t].proc = "running"
    /\ threads' = [threads EXCEPT ![t].proc = "exited"]
    /\ UNCHANGED <<so, pid, error_occurred>>
    /\ ThreadUnchanged

\* lines 639-641, 647: communicate() returns the text out of a process that
\* has ended or was killed; the thread ends
ThreadCommunicate(t, out) ==
    /\ threads[t].pc = "communicate"
    /\ threads[t].proc \in {"exited", "killed"}
    /\ threads' = [threads EXCEPT ![t].pc = "dead"]
    /\ so' = IF OwnsFrame(t) /\ Len(out) > 0 THEN Append(so, out) ELSE so
    /\ UNCHANGED <<pid, error_occurred>>
    /\ ThreadUnchanged

\* lines 642-646: communicate() raises OSError; the thread ends
ThreadCommunicateFails(t) ==
    /\ threads[t].pc = "communicate"
    /\ threads' = [threads EXCEPT ![t].pc = "dead", ![t].failed = TRUE]
    /\ so' = IF OwnsFrame(t) THEN Append(so, ErrorText) ELSE so
    /\ error_occurred' = TRUE
    /\ UNCHANGED pid
    /\ ThreadUnchanged

----------------------------------------------------------------------------

Next ==
    \/ \E tmo \in Timeouts, r \in 0 .. MaxRetry : RunCommand(tmo, r)
    \/ RunOnceStart
    \/ PollAlive
    \/ CheckTimeout
    \/ KillAndRaise
    \/ Sleep
    \/ JoinAndReturn
    \/ Tick
    \/ \E t \in ThreadIds : ThreadPopen(t)
    \/ \E t \in ThreadIds : ThreadPopenFails(t)
    \/ \E t \in ThreadIds : ProcExit(t)
    \/ \E t \in ThreadIds, out \in ProcessTexts : ThreadCommunicate(t, out)
    \/ \E t \in ThreadIds : ThreadCommunicateFails(t)

Spec == Init /\ [][Next]_vars

\* the statements of the calling thread inside run_command
CallerStep ==
    \/ RunOnceStart
    \/ PollAlive
    \/ CheckTimeout
    \/ KillAndRaise
    \/ Sleep
    \/ JoinAndReturn

\* the executor with a calling thread that keeps being scheduled; sleep(0.1)
\* takes time.  Nothing is assumed of the supervising threads and of the
\* external processes: a process may run for ever.
SpecFair == Spec /\ WF_vars(CallerStep)

----------------------------------------------------------------------------
(* Properties of the command executor *)

AllTimedOut ==
    /\ attempt_log # <<>>
    /\ \A i \in 1 .. Len(attempt_log) : attempt_log[i] = "TimedOut"

\* the thread started for the i-th attempt of the current run_command call
ThreadOfAttempt(i) ==
    (CHOOSE t \in attempt_threads : \A u \in attempt_threads : t <= u) + i - 1

KillsOf(t) == Cardinality({k \in 1 .. Len(kill_log) : kill_log[k] = t})

\* C1: a command whose every attempt times out is attempted exactly R+1
\* times, R the retry budget, before run_command returns.
C1_RetryBudgetAttempts ==
    (rc_pc = "done" /\ AllTimedOut) => Len(attempt_log) = budget + 1

C4_ThreadsJoined ==
    rc_pc = "done" => \A t \in attempt_threads : ~isAlive(t)

C6_BudgetZeroOneAttempt ==
    budget = 0 =>
        /\ Len(attempt_log) <= 1
        /\ Cardinality(attempt_threads) <= 1
        /\ rc_pc = "done" => (Len(attempt_log) = 1 /\ Cardinality(attempt_threads) = 1)

C6_Witness ==
    /\ rc_pc = "done"
    /\ budget = 0
    /\ attempt_log = <<"TimedOut">>
    /\ Cardinality(attempt_threads) = 1

----------------------------------------------------------------------------
(* The device session.  Every run_command call of an operation is one step *)
(* whose outcome is one of the outcomes run_command has.                   *)

\* bound of the press_nkey repeat argument: 1..MaxRepeat
MaxRepeat == 2

\* descriptors os.open hands out
Fds == {Fd(0), Fd(3)}

\* ir_remote of the constructor: None by default, or the name of a remote
IrRemotes == {"None", "remote"}

\* repeat arguments of press_ir_key: any int; a negative one included
IrRepeats == -1 .. MaxRepeat

\* the descriptor behind self.child is open: sendline writes to it
ConsoleUsable == serial_device \in open_fds

\* variant: `if self.serial_device is not None:`
Truthy_notNone(dev) == dev # NoFd

\* `if self.serial_device:` is False for None and for the descriptor 0
Truthy(dev) == dev # NoFd /\ dev.fd # 0

Returned(v) == [exc |-> "none", value |-> v]

Raised(e) == [exc |-> e, value |-> None]

\* run_command returns the text of the command, returns None after a
\* timeout, or is left by an exception it does not handle
RunCommandOutcomes ==
    {Returned(Str(o)) : o \in Outputs}
        \cup {Returned(None), Raised("AbortError"), Raised("IndexError")}

NoneMarker == <<"N", "o", "n", "e">>

ErrorMarker == <<"e", "r", "r", "o", "r">>

\* "None" in out or "error" in out, out a str
HasMarker(text) == Contains(text, NoneMarker) \/ Contains(text, ErrorMarker)

\* "None" not in str(output) and "error" not in str(output)
IsReachable(output) == ~HasMarker(PyStr(output))

\* while reconnect_attempts <= 3
ReconnectLimit == 3

Frame(fn, pc) == [fn |-> fn, pc |-> pc, count |-> 0, repeat |-> 0]

Top == d_stack[Len(d_stack)]

At(fn, pc) ==
    /\ d_state = "running"
    /\ d_stack # <<>>
    /\ Top.fn = fn
    /\ Top.pc = pc

Goto(pc) == [d_stack EXCEPT ![Len(d_stack)].pc = pc]

Pop == SubSeq(d_stack, 1, Len(d_stack) - 1)

\* the top frame returns v to its caller
Return(v) ==
    /\ d_stack' = Pop
    /\ d_ret' = v
    /\ d_state' = IF Len(d_stack) = 1 THEN "returned" ELSE "running"
    /\ UNCHANGED d_error

\* exception e leaves the operation: no frame of an operation handles it
Raise(e) ==
    /\ d_stack' = <<>>
    /\ d_error' = e
    /\ d_state' = "raised"
    /\ UNCHANGED d_ret

Probe(site, output) ==
    [site |-> site, output |-> output, reachable |-> IsReachable(output)]

ProbeEvent(output) == IF IsReachable(output) THEN "ls:R" ELSE "ls:U"

\* variant: the serial branch is never taken
ReconnectFrame_noConsole == Frame("reconnect_device", "action")

\* reconnect_device entered: lines 173-175 choose the serial branch or not
ReconnectFrame ==
    Frame("reconnect_device", IF serial_device # NoFd THEN "su" ELSE "action")

IsDeviceOkFrame == Frame("_is_device_ok", "probe")

ProbeFirstOps == {"tap", "drag", "get_specific_device_property",
                  "android_command", "handle_test_failure", "take_screenshot"}

Ops == ProbeFirstOps \cup {"reboot_device", "reconnect_device"}

EntryStack(op) ==
    IF op \in ProbeFirstOps THEN <<Frame(op, "checked"), IsDeviceOkFrame>>
    ELSE IF op = "reboot_device"
         THEN <<Frame(op, IF serial_device # NoFd THEN "su" ELSE "command")>>
    ELSE <<ReconnectFrame>>

\* test code calls an operation of the session
Call(op) ==
    /\ d_state # "running"
    /\ d_op' = op
    /\ d_stack' = EntryStack(op)
    /\ d_state' = "running"
    /\ d_error' = "none"
    /\ d_ret' = "None"
    /\ d_log' = IF op = "reconnect_device" THEN <<"rd:enter">> ELSE <<>>
    /\ last_probe' = NoProbe
    /\ fd_fault' = "none"
    /\ UNCHANGED <<is_usb, serial_device, ir_remote, open_fds>>
    /\ UNCHANGED execVars

\* test code calls press_nkey(keyevent_id, repeat=rep)
CallPressNkey(rep) ==
    /\ d_state # "running"
    /\ d_op' = "press_nkey"
    /\ d_stack' = <<[Frame("press_nkey", "loop") EXCEPT !.repeat = rep]>>
    /\ d_state' = "running"
    /\ d_error' = "none"
    /\ d_ret' = "None"
    /\ d_log' = <<>>
    /\ last_probe' = NoProbe
    /\ fd_fault' = "none"
    /\ UNCHANGED <<is_usb, serial_device, ir_remote, open_fds>>
    /\ UNCHANGED execVars

\* initialize_serial_device: os.open and fdspawn
InitializeSerialDevice(f) ==
    /\ d_state # "running"
    /\ f \notin open_fds
    /\ serial_device' = f
    /\ open_fds' = open_fds \cup {f}
    /\ fd_fault' = "none"
    /\ d_op' = "initialize_serial_device"
    /\ d_state' = "returned"
    /\ d_error' = "none"
    /\ d_ret' = "None"
    /\ d_log' = <<>>
    /\ last_probe' = NoProbe
    /\ UNCHANGED <<is_usb, ir_remote, d_stack>>
    /\ UNCHANGED execVars

\* variant: close_serial_device ends with self.serial_device = None
AfterClose_reset(dev) == NoFd

\* close_serial_device assigns nothing: self.serial_device keeps the
\* descriptor it had
AfterClose(dev) == dev

\* close_serial_device, lines 82-93: os.close of a truthy descriptor; the
\* attribute keeps its value
CloseSerialDevice ==
    /\ d_state # "running"
    /\ d_op' = "close_serial_device"
    /\ d_ret' = "None"
    /\ d_log' = <<>>
    /\ last_probe' = NoProbe
    /\ IF Truthy(serial_device)
       THEN IF serial_device \in open_fds
            THEN /\ open_fds' = open_fds \ {serial_device}
                 /\ fd_fault' = "none"
                 /\ d_state' = "returned"
                 /\ d_error' = "none"
            ELSE \* os.close of a descriptor closed before: OSError
                 /\ fd_fault' = "double_close"
                 /\ d_state' = "raised"
                 /\ d_error' = "OSError"
                 /\ UNCHANGED open_fds
       ELSE /\ fd_fault' = "none"
            /\ d_state' = "returned"
            /\ d_error' = "none"
            /\ UNCHANGED open_fds
    /\ serial_device' = AfterClose(serial_device)
    /\ UNCHANGED <<is_usb, ir_remote, d_stack>>
    /\ UNCHANGED execVars

\* test code calls press_ir_key(key, repeat=rep)
CallPressIrKey(rep) ==
    /\ d_state # "running"
    /\ d_op' = "press_ir_key"
    /\ d_stack' = <<[Frame("press_ir_key", "loop") EXCEPT !.repeat = rep]>>
    /\ d_state' = "running"
    /\ d_error' = "none"
    /\ d_ret' = "None"
    /\ d_log' = <<>>
    /\ last_probe' = NoProbe
    /\ fd_fault' = "none"
    /\ UNCHANGED <<is_usb, serial_device, ir_remote, open_fds>>
    /\ UNCHANGED execVars

\* while (count <= repeat), count starting at 0
EntersBody(count, repeat) == count <= repeat

\* press_ir_key, lines 108-119: one pass of the loop: the test of
\* self.ir_remote, the irsend command, the sleep
PressIrKeyLoop ==
    /\ At("press_ir_key", "loop")
    /\ IF EntersBody(Top.count, Top.repeat)
       THEN IF ir_remote = "None"
            THEN /\ Raise("DeviceInitializationError")
                 /\ UNCHANGED d_log
            ELSE \E oc \in RunCommandOutcomes :
                    IF oc.exc # "none"
                    THEN /\ Raise(oc.exc)
                         /\ d_log' = Append(d_log, "irsend:raise")
                    ELSE /\ d_log' = Append(d_log, "irsend")
                         /\ d_stack' = [d_stack EXCEPT
                                           ![Len(d_stack)].count = Top.count + 1]
                         /\ UNCHANGED <<d_ret, d_state, d_error>>
       ELSE /\ Return("None")
            /\ UNCHANGED d_log
    /\ last_probe' = NoProbe
    /\ UNCHANGED <<is_usb, serial_device, ir_remote, open_fds, fd_fault, d_op>>
    /\ UNCHANGED execVars

\* _is_device_ok, lines 138-143: the probe; reconnect_device when Unreachable
IsDeviceOk ==
    /\ At("_is_device_ok", "probe")
    /\ \E oc \in RunCommandOutcomes :
          IF oc.exc # "none"
          THEN /\ Raise(oc.exc)
               /\ d_log' = Append(d_log, "ls:raise")
               /\ last_probe' = NoProbe
          ELSE /\ d_log' = IF IsReachable(oc.value)
                           THEN Append(d_log, "ls:R")
                           ELSE d_log \o <<"ls:U", "rd:enter">>
               /\ last_probe' = Probe("_is_device_ok", oc.value)
               /\ IF IsReachable(oc.value)
                  THEN Return("True")
                  ELSE /\ d_stack' = Append(Goto("tail"), ReconnectFrame)
                       /\ UNCHANGED <<d_ret, d_state, d_error>>
    /\ UNCHANGED <<is_usb, serial_device, ir_remote, open_fds, fd_fault, d_op>>
    /\ UNCHANGED execVars

\* _is_device_ok, line 143: return what reconnect_device returned
IsDeviceOkTail ==
    /\ At("_is_device_ok", "tail")
    /\ Return(d_ret)
    /\ last_probe' = NoProbe
    /\ UNCHANGED <<is_usb, serial_device, ir_remote, open_fds, fd_fault, d_op,
                   d_log>>
    /\ UNCHANGED execVars

\* variant: no handler around the console dialogue: pexpect's TIMEOUT leaves
\* reconnect_device as it is
PromptFailure_unhandled == "TIMEOUT"

\* reconnect_device, lines 188-189: `except ExceptionPexpect:` turns a failed
\* prompt wait into DeviceUnresponsiveError
PromptFailure == "DeviceUnresponsiveError"

\* reconnect_device, lines 177-180: su on the console, wait for the prompt
ReconnectSu ==
    /\ At("reconnect_device", "su")
    /\ IF ConsoleUsable
       THEN /\ \E matched \in BOOLEAN :
                  IF matched
                  THEN /\ d_log' = d_log \o <<"su", "expect:ok">>
                       /\ d_stack' = Goto("dhcp")
                       /\ UNCHANGED <<d_ret, d_state, d_error>>
                  ELSE /\ d_log' = d_log \o <<"su", "expect:fail">>
                       /\ Raise(PromptFailure)
            /\ UNCHANGED fd_fault
       ELSE \* os.write on a closed descriptor: OSError, which is no
            \* ExceptionPexpect and is not handled
            /\ d_log' = Append(d_log, "console:raise")
            /\ Raise("OSError")
            /\ fd_fault' = "use_after_close"
    /\ last_probe' = NoProbe
    /\ UNCHANGED <<is_usb, serial_device, ir_remote, open_fds, d_op>>
    /\ UNCHANGED execVars

\* reconnect_device, lines 182-185: netcfg eth0 dhcp, wait for the prompt
ReconnectDhcp ==
    /\ At("reconnect_device", "dhcp")
    /\ \E matched \in BOOLEAN :
          IF matched
          THEN /\ d_log' = d_log \o <<"dhcp", "expect:ok">>
               /\ d_stack' = Goto("action")
               /\ UNCHANGED <<d_ret, d_state, d_error>>
          ELSE /\ d_log' = d_log \o <<"dhcp", "expect:fail">>
               /\ Raise(PromptFailure)
    /\ last_probe' = NoProbe
    /\ UNCHANGED <<is_usb, serial_device, ir_remote, open_fds, fd_fault, d_op>>
    /\ UNCHANGED execVars

\* reconnect_device, lines 186-193: the reconnect command of the mode
FirstAction ==
    IF serial_device # NoFd THEN "connect"
    ELSE IF is_usb = TRUE THEN "usb"
    ELSE "connect"

ReconnectAction ==
    /\ At("reconnect_device", "action")
    /\ \E oc \in RunCommandOutcomes :
          IF oc.exc # "none"
          THEN /\ Raise(oc.exc)
               /\ d_log' = Append(d_log, FirstAction \o ":raise")
          ELSE /\ d_log' = Append(d_log, FirstAction)
               /\ d_stack' = Goto("probe")
               /\ UNCHANGED <<d_ret, d_state, d_error>>
    /\ last_probe' = NoProbe
    /\ UNCHANGED <<is_usb, serial_device, ir_remote, open_fds, fd_fault, d_op>>
    /\ UNCHANGED execVars

\* reconnect_device, lines 195-201: the probe after the first command
ReconnectProbe ==
    /\ At("reconnect_device", "probe")
    /\ \E oc \in RunCommandOutcomes :
          IF oc.exc # "none"
          THEN /\ Raise(oc.exc)
               /\ d_log' = Append(d_log, "ls:raise")
               /\ last_probe' = NoProbe
          ELSE /\ last_probe' = Probe("reconnect_device", oc.value)
               /\ IF IsReachable(oc.value)
                  THEN /\ d_log' = d_log \o <<"ls:R", "rd:True">>
                       /\ Return("True")
                  ELSE /\ d_log' = Append(d_log, "ls:U")
                       /\ d_stack' = [Goto("loop_action") EXCEPT
                                         ![Len(d_stack)].count = 0]
                       /\ UNCHANGED <<d_ret, d_state, d_error>>
    /\ UNCHANGED <<is_usb, serial_device, ir_remote, open_fds, fd_fault, d_op>>
    /\ UNCHANGED execVars

\* reconnect_device, lines 204-207: the reconnect command of a loop pass
LoopAction == IF is_usb = FALSE THEN "connect" ELSE "usb"

ReconnectLoopAction ==
    /\ At("reconnect_device", "loop_action")
    /\ \E oc \in RunCommandOutcomes :
          IF oc.exc # "none"
          THEN /\ Raise(oc.exc)
               /\ d_log' = Append(d_log, LoopAction \o ":raise")
          ELSE /\ d_log' = Append(d_log, LoopAction)
               /\ d_stack' = Goto("loop_probe")
               /\ UNCHANGED <<d_ret, d_state, d_error>>
    /\ last_probe' = NoProbe
    /\ UNCHANGED <<is_usb, serial_device, ir_remote, open_fds, fd_fault, d_op>>
    /\ UNCHANGED execVars

\* variant: while reconnect_attempts < 3
LoopContinues_strict(attempts) == attempts < ReconnectLimit

\* while reconnect_attempts <= 3, tested after reconnect_attempts += 1
LoopContinues(attempts) == attempts <= ReconnectLimit

\* variant: the break after success = True is missing
BreaksOnSuccess_missing == FALSE

\* a Reachable probe in the loop: success = True; break
BreaksOnSuccess == TRUE

\* reconnect_device, lines 208-217: the probe of a loop pass, the loop test
\* and the return
ReconnectLoopProbe ==
    /\ At("reconnect_device", "loop_probe")
    /\ \E oc \in RunCommandOutcomes :
          IF oc.exc # "none"
          THEN /\ Raise(oc.exc)
               /\ d_log' = Append(d_log, "ls:raise")
               /\ last_probe' = NoProbe
          ELSE /\ last_probe' = Probe("reconnect_device", oc.value)
               /\ IF IsReachable(oc.value) /\ BreaksOnSuccess
                  THEN /\ d_log' = d_log \o <<"ls:R", "rd:True">>
                       /\ Return("True")
                  ELSE LET n == IF IsReachable(oc.value) THEN Top.count
                                ELSE Top.count + 1
                       IN IF LoopContinues(n)
                          THEN /\ d_log' = Append(d_log, ProbeEvent(oc.value))
                               /\ d_stack' = [Goto("loop_action") EXCEPT
                                                 ![Len(d_stack)].count = n]
                               /\ UNCHANGED <<d_ret, d_state, d_error>>
                          ELSE /\ d_log' = d_log \o <<ProbeEvent(oc.value), "rd:False">>
                               /\ Return("False")
    /\ UNCHANGED <<is_usb, serial_device, ir_remote, open_fds, fd_fault, d_op>>
    /\ UNCHANGED execVars

----------------------------------------------------------------------------
(* Device-facing operations *)

\* the command each single-command operation sends
CommandOf(op) ==
    CASE op = "tap" -> "tap"
      [] op = "drag" -> "swipe"
      [] op = "get_specific_device_property" -> "getprop"
      [] op = "android_command" -> "android"

\* what the operation returns when _is_device_ok() was False
SkippedValue(op) ==
    CASE op = "get_specific_device_property" -> "str"
      [] op = "android_command" -> "None"
      [] OTHER -> "None"

\* what the operation returns after its command
SentValue(op) ==
    CASE op = "get_specific_device_property" -> "str"
      [] op = "android_command" -> "str"
      [] OTHER -> "None"

\* variant: `if self._is_device_ok() is not None:`
Guarded_notNone(ok) == ok # "None"

\* variant: the command is sent whatever _is_device_ok() returned
Guarded_always(ok) == TRUE

\* `if self._is_device_ok():` guarding the command of an operation
Guarded(ok) == ok = "True"

\* what the log keeps of a control command that returned: its name, and
\* "marker" when "None" or "error" is in str() of its output
Sent(cmd, output) ==
    IF HasMarker(PyStr(output)) THEN <<cmd, "marker">> ELSE <<cmd>>

SingleCommandOps == {"tap", "drag", "get_specific_device_property",
                     "android_command"}

\* tap, drag, get_specific_device_property, android_command: the command
\* after `if self._is_device_ok():`
SendCommand ==
    /\ d_state = "running"
    /\ d_stack # <<>>
    /\ Top.fn \in SingleCommandOps
    /\ Top.pc = "checked"
    /\ IF Guarded(d_ret)
       THEN \E oc \in RunCommandOutcomes :
               IF oc.exc # "none"
               THEN /\ Raise(oc.exc)
                    /\ d_log' = Append(d_log, CommandOf(Top.fn) \o ":raise")
               ELSE /\ d_log' = d_log \o Sent(CommandOf(Top.fn), oc.value)
                    /\ Return(SentValue(Top.fn))
       ELSE /\ Return(SkippedValue(Top.fn))
            /\ UNCHANGED d_log
    /\ last_probe' = NoProbe
    /\ UNCHANGED <<is_usb, serial_device, ir_remote, open_fds, fd_fault, d_op>>
    /\ UNCHANGED execVars

\* variant: the statement `count += 1` is missing
NextCount_same(count) == count

\* press_nkey, line 348: count += 1
NextCount(count) == count + 1

\* press_nkey, lines 347-352: the loop head and the probe of a key press
PressNkeyLoop ==
    /\ At("press_nkey", "loop")
    /\ IF Top.count < Top.repeat
       THEN /\ d_stack' = Append([Goto("send") EXCEPT
                                     ![Len(d_stack)].count = NextCount(Top.count)],
                                 IsDeviceOkFrame)
            /\ d_log' = <<>>
            /\ UNCHANGED <<d_ret, d_state, d_error>>
       ELSE /\ Return("None")
            /\ UNCHANGED d_log
    /\ last_probe' = NoProbe
    /\ UNCHANGED <<is_usb, serial_device, ir_remote, open_fds, fd_fault, d_op>>
    /\ UNCHANGED execVars

\* variant: the key event is never sent again
TriesAgain_never(out) == FALSE

\* press_nkey, line 356: `"None" in out or "error" in out`, out a str
TriesAgain(out) == HasMarker(out)

\* press_nkey, lines 352-356: the key event, and a second probe when its
\* output has a failure marker
PressNkeySend ==
    /\ At("press_nkey", "send")
    /\ IF Guarded(d_ret)
       THEN \E oc \in RunCommandOutcomes :
               IF oc.exc # "none"
               THEN /\ Raise(oc.exc)
                    /\ d_log' = Append(d_log, "keyevent:raise")
               ELSE /\ d_log' = d_log \o Sent("keyevent", oc.value)
                    /\ d_stack' = IF TriesAgain(PyStr(oc.value))
                                  THEN Append(Goto("resend"), IsDeviceOkFrame)
                                  ELSE Goto("loop")
                    /\ UNCHANGED <<d_ret, d_state, d_error>>
       ELSE /\ d_stack' = Goto("loop")
            /\ UNCHANGED <<d_ret, d_state, d_error, d_log>>
    /\ last_probe' = NoProbe
    /\ UNCHANGED <<is_usb, serial_device, ir_remote, open_fds, fd_fault, d_op>>
    /\ UNCHANGED execVars

\* press_nkey, lines 356-360: the key event sent once more
PressNkeyResend ==
    /\ At("press_nkey", "resend")
    /\ IF Guarded(d_ret)
       THEN \E oc \in RunCommandOutcomes :
               IF oc.exc # "none"
               THEN /\ Raise(oc.exc)
                    /\ d_log' = Append(d_log, "keyevent:raise")
               ELSE /\ d_log' = d_log \o Sent("keyevent", oc.value)
                    /\ d_stack' = Goto("loop")
                    /\ UNCHANGED <<d_ret, d_state, d_error>>
       ELSE /\ d_stack' = Goto("loop")
            /\ UNCHANGED <<d_ret, d_state, d_error, d_log>>
    /\ last_probe' = NoProbe
    /\ UNCHANGED <<is_usb, serial_device, ir_remote, open_fds, fd_fault, d_op>>
    /\ UNCHANGED execVars

\* handle_test_failure, lines 433-437: pull /data/anr, then take_screenshot
HandleTestFailurePull ==
    /\ At("handle_test_failure", "checked")
    /\ IF Guarded(d_ret)
       THEN \E oc \in RunCommandOutcomes :
               IF oc.exc # "none"
               THEN /\ Raise(oc.exc)
                    /\ d_log' = Append(d_log, "pull:raise")
               ELSE /\ d_log' = Append(d_log, "pull")
                    /\ d_stack' = Goto("bugreport")
                                     \o <<Frame("take_screenshot", "checked"),
                                          IsDeviceOkFrame>>
                    /\ UNCHANGED <<d_ret, d_state, d_error>>
       ELSE /\ Return("None")
            /\ UNCHANGED d_log
    /\ last_probe' = NoProbe
    /\ UNCHANGED <<is_usb, serial_device, ir_remote, open_fds, fd_fault, d_op>>
    /\ UNCHANGED execVars

\* handle_test_failure, lines 438-440: the bugreport dump
HandleTestFailureBugreport ==
    /\ At("handle_test_failure", "bugreport")
    /\ \E oc \in RunCommandOutcomes :
          IF oc.exc # "none"
          THEN /\ Raise(oc.exc)
               /\ d_log' = Append(d_log, "bugreport:raise")
          ELSE /\ d_log' = Append(d_log, "bugreport")
               /\ Return("None")
    /\ last_probe' = NoProbe
    /\ UNCHANGED <<is_usb, serial_device, ir_remote, open_fds, fd_fault, d_op>>
    /\ UNCHANGED execVars

\* `screencap_out is "None"`: an identity test of two str objects.  A text
\* read from the process is never the literal; whether str(None) is the
\* very object of the literal is left to the interpreter.
IsNoneLiteral(value) == IF value = None THEN BOOLEAN ELSE {FALSE}

\* take_screenshot, lines 264-268: the capture, and a second probe when the
\* output asks for one
TakeScreenshotCapture ==
    /\ At("take_screenshot", "checked")
    /\ IF Guarded(d_ret)
       THEN \E oc \in RunCommandOutcomes :
               IF oc.exc # "none"
               THEN /\ Raise(oc.exc)
                    /\ d_log' = Append(d_log, "screencap:raise")
               ELSE /\ d_log' = d_log \o Sent("screencap", oc.value)
                    /\ \E same \in IsNoneLiteral(oc.value) :
                          IF same \/ Contains(PyStr(oc.value), ErrorMarker)
                          THEN /\ d_stack' = Append(Goto("recapture"), IsDeviceOkFrame)
                               /\ UNCHANGED <<d_ret, d_state, d_error>>
                          ELSE Return("path")
       ELSE /\ Return("path")
            /\ UNCHANGED d_log
    /\ last_probe' = NoProbe
    /\ UNCHANGED <<is_usb, serial_device, ir_remote, open_fds, fd_fault, d_op>>
    /\ UNCHANGED execVars

\* take_screenshot, lines 268-273: the capture once more; its result is not
\* passed through str(), so that debug("..." + None) raises TypeError
TakeScreenshotRecapture ==
    /\ At("take_screenshot", "recapture")
    /\ IF Guarded(d_ret)
       THEN \E oc \in RunCommandOutcomes :
               IF oc.exc # "none"
               THEN /\ Raise(oc.exc)
                    /\ d_log' = Append(d_log, "screencap:raise")
               ELSE /\ d_log' = d_log \o Sent("screencap", oc.value)
                    /\ IF oc.value = None
                       THEN Raise("TypeError")
                       ELSE Return("path")
       ELSE /\ Return("path")
            /\ UNCHANGED d_log
    /\ last_probe' = NoProbe
    /\ UNCHANGED <<is_usb, serial_device, ir_remote, open_fds, fd_fault, d_op>>
    /\ UNCHANGED execVars

\* reboot_device, lines 232-235: su on the console, wait for the prompt
RebootSu ==
    /\ At("reboot_device", "su")
    /\ IF ConsoleUsable
       THEN /\ \E matched \in BOOLEAN :
                  IF matched
                  THEN /\ d_log' = d_log \o <<"su", "expect:ok">>
                       /\ d_stack' = Goto("reboot")
                       /\ UNCHANGED <<d_ret, d_state, d_error>>
                  ELSE /\ d_log' = d_log \o <<"su", "expect:fail">>
                       /\ Raise("DeviceUnresponsiveError")
            /\ UNCHANGED fd_fault
       ELSE \* os.write on a closed descriptor: OSError, which is no
            \* ExceptionPexpect and is not handled
            /\ d_log' = Append(d_log, "console:raise")
            /\ Raise("OSError")
            /\ fd_fault' = "use_after_close"
    /\ last_probe' = NoProbe
    /\ UNCHANGED <<is_usb, serial_device, ir_remote, open_fds, d_op>>
    /\ UNCHANGED execVars

\* reboot_device, lines 236-239: reboot on the console, wait for
\* "Restarting system"
RebootConsole ==
    /\ At("reboot_device", "reboot")
    /\ \E matched \in BOOLEAN :
          IF matched
          THEN /\ d_log' = d_log \o <<"reboot", "expect:ok">>
               /\ d_stack' = Goto("settle")
               /\ UNCHANGED <<d_ret, d_state, d_error>>
          ELSE /\ d_log' = d_log \o <<"reboot", "expect:fail">>
               /\ Raise("DeviceUnresponsiveError")
    /\ last_probe' = NoProbe
    /\ UNCHANGED <<is_usb, serial_device, ir_remote, open_fds, fd_fault, d_op>>
    /\ UNCHANGED execVars

\* reboot_device, line 244: adb reboot
RebootCommand ==
    /\ At("reboot_device", "command")
    /\ \E oc \in RunCommandOutcomes :
          IF oc.exc # "none"
          THEN /\ Raise(oc.exc)
               /\ d_log' = Append(d_log, "reboot:raise")
          ELSE /\ d_log' = d_log \o Sent("reboot", oc.value)
               /\ d_stack' = Goto("settle")
               /\ UNCHANGED <<d_ret, d_state, d_error>>
    /\ last_probe' = NoProbe
    /\ UNCHANGED <<is_usb, serial_device, ir_remote, open_fds, fd_fault, d_op>>
    /\ UNCHANGED execVars

\* variant: reboot_device returns without the sleep(60)
RebootSettle_skipped ==
    /\ At("reboot_device", "settle")
    /\ Return("None")
    /\ last_probe' = NoProbe
    /\ UNCHANGED <<is_usb, serial_device, ir_remote, open_fds, fd_fault, d_op,
                   d_log>>
    /\ UNCHANGED execVars

\* reboot_device, line 247: sleep(60)
RebootSettle ==
    /\ At("reboot_device", "settle")
    /\ d_log' = Append(d_log, "sleep60")
    /\ Return("None")
    /\ last_probe' = NoProbe
    /\ UNCHANGED <<is_usb, serial_device, ir_remote, open_fds, fd_fault, d_op>>
    /\ UNCHANGED execVars

----------------------------------------------------------------------------

NextDev ==
    \/ \E op \in Ops : Call(op)
    \/ \E rep \in 1 .. MaxRepeat : CallPressNkey(rep)
    \/ \E rep \in IrRepeats : CallPressIrKey(rep)
    \/ \E f \in Fds : InitializeSerialDevice(f)
    \/ CloseSerialDevice
    \/ PressIrKeyLoop
    \/ IsDeviceOk
    \/ IsDeviceOkTail
    \/ ReconnectSu
    \/ ReconnectDhcp
    \/ ReconnectAction
    \/ ReconnectProbe
    \/ ReconnectLoopAction
    \/ ReconnectLoopProbe
    \/ SendCommand
    \/ PressNkeyLoop
    \/ PressNkeySend
    \/ PressNkeyResend
    \/ HandleTestFailurePull
    \/ HandleTestFailureBugreport
    \/ TakeScreenshotCapture
    \/ TakeScreenshotRecapture
    \/ RebootSu
    \/ RebootConsole
    \/ RebootCommand
    \/ RebootSettle

\* the steps of the operation that is running: the interpreter runs the
\* calling thread on, statement after statement
DevStep ==
    \/ IsDeviceOk
    \/ IsDeviceOkTail
    \/ ReconnectSu
    \/ ReconnectDhcp
    \/ ReconnectAction
    \/ ReconnectProbe
    \/ ReconnectLoopAction
    \/ ReconnectLoopProbe
    \/ SendCommand
    \/ PressNkeyLoop
    \/ PressNkeySend
    \/ PressNkeyResend
    \/ PressIrKeyLoop
    \/ HandleTestFailurePull
    \/ HandleTestFailureBugreport
    \/ TakeScreenshotCapture
    \/ TakeScreenshotRecapture
    \/ RebootSu
    \/ RebootConsole
    \/ RebootCommand
    \/ RebootSettle

InitDev ==
    InitExec /\ \E usb \in BOOLEAN, ir \in IrRemotes : InitSession(usb, ir)

SpecDev == InitDev /\ [][NextDev]_vars

\* the device session with an operation that is never left half-way: every
\* run_command call it makes returns or raises
SpecDevFair == SpecDev /\ WF_vars(DevStep)

----------------------------------------------------------------------------
(* Properties of the device session *)

\* needle occurs in s at some position
OccursIn(s, needle) ==
    \E i \in 1 .. Len(s) :
        /\ i + Len(needle) - 1 <= Len(s)
        /\ \A k \in 1 .. Len(needle) : s[i + k - 1] = needle[k]

Last(seq) == seq[Len(seq)]

ProbeEvents == {"ls:R", "ls:U"}

\* the last position at or before i where ev is in the log, 0 when nowhere
RECURSIVE LastIndexOf(_, _, _)
LastIndexOf(log, ev, i) ==
    IF i = 0 THEN 0
    ELSE IF log[i] = ev THEN i
    ELSE LastIndexOf(log, ev, i - 1)

\* C7: a probe is Unreachable when the listing result is absent or its text
\* has "None" or "error" in it (case-sensitive), Reachable for every other
\* text; the probes of reconnect_device classify the same way, and the
\* operation goes on as the verdict says.
C7_ProbeClassification ==
    last_probe.site # "none" =>
        LET o == last_probe.output
            unreachable ==
                \/ o.kind = "None"
                \/ /\ o.kind = "str"
                   /\ \/ OccursIn(o.text, <<"N", "o", "n", "e">>)
                      \/ OccursIn(o.text, <<"e", "r", "r", "o", "r">>)
            i == IF last_probe.reachable
                 THEN LastIndexOf(d_log, "ls:R", Len(d_log))
                 ELSE LastIndexOf(d_log, "ls:U", Len(d_log))
        IN /\ last_probe.reachable = ~unreachable
           /\ i > 0
           /\ \A j \in i + 1 .. Len(d_log) : d_log[j] \notin ProbeEvents

C7_Witness ==
    /\ last_probe.site = "reconnect_device"
    /\ last_probe.output = Str(OutNoneMid)
    /\ ~last_probe.reachable
    /\ Last(d_log) = "ls:U"

\* the latest reconnect_device call in the log: the events it issued (body)
\* and what it returned (result, "none" while it runs or when it raised)
RECURSIVE FirstReturnFrom(_, _)
FirstReturnFrom(log, i) ==
    IF i > Len(log) THEN i
    ELSE IF log[i] \in {"rd:True", "rd:False"} THEN i
    ELSE FirstReturnFrom(log, i + 1)

Reconnect ==
    LET start == LastIndexOf(d_log, "rd:enter", Len(d_log))
        end == FirstReturnFrom(d_log, start + 1)
    IN [called |-> start > 0,
        body |-> SubSeq(d_log, start + 1, end - 1),
        result |-> IF end > Len(d_log) THEN "none" ELSE d_log[end],
        latest |-> end = Len(d_log)]

ModeAction == IF is_usb THEN "usb" ELSE "connect"

\* n cycles of one reconnect command followed by one Unreachable probe
FailedCycles(n) == [i \in 1 .. 2 * n |-> IF i % 2 = 1 THEN ModeAction ELSE "ls:U"]

ProbesOf(body) == {i \in 1 .. Len(body) : body[i] \in ProbeEvents}

C9_ReconnectResult ==
    LET rd == Reconnect
        body == rd.body
        probes == ProbesOf(body)
        endsReachable == body # <<>> /\ Last(body) = "ls:R"
    IN rd.called =>
          /\ \A i \in probes : body[i] = "ls:R" => i = Len(body)
          /\ endsReachable <=> rd.result = "rd:True"
          /\ rd.result = "rd:False" =>
                (probes # {} /\ \A i \in probes : body[i] = "ls:U")
          /\ (rd.result # "none" /\ rd.latest
                /\ (At("_is_device_ok", "tail")
                      \/ (d_op = "reconnect_device" /\ d_state = "returned")))
             => d_ret = (IF rd.result = "rd:True" THEN "True" ELSE "False")
          /\ (d_op = "reconnect_device" /\ d_state = "returned")
                => rd.result # "none"

C9_Witness ==
    /\ serial_device = NoFd
    /\ is_usb
    /\ d_op = "reconnect_device"
    /\ d_state = "returned"
    /\ d_ret = "True"
    /\ d_log = <<"rd:enter", "usb", "ls:R", "rd:True">>

\* control commands an operation sends to the device, listed also as the
\* call that raised
ControlNames == {"tap", "swipe", "keyevent", "pull", "bugreport", "getprop",
                 "android", "screencap", "reboot"}

ControlEvents == ControlNames \cup {c \o ":raise" : c \in ControlNames}

ProbedBefore(i) == \E j \in 1 .. i - 1 : d_log[j] = "ls:R"

----------------------------------------------------------------------------
(* Operations on a device that stays Unreachable *)

\* C11: when the probe of tap and every probe of the reconnect_device call
\* that follows it are Unreachable, so that reconnect_device returns false,
\* in serial, USB or network mode, tap sends no tap command, raises nothing
\* and returns normally.
C11_TapSkipsUnreachable ==
    (d_op = "tap" /\ Reconnect.result = "rd:False") =>
        /\ d_log[1] = "ls:U"
        /\ \A i \in 1 .. Len(d_log) : d_log[i] \notin {"tap", "tap:raise"}
        /\ Last(d_log) = "rd:False"
        /\ d_error = "none"
        /\ d_state \in {"running", "returned"}
        /\ d_state = "running" => Top.fn \in {"_is_device_ok", "tap"}
        /\ d_state = "returned" => d_ret = "None"

C11_Witness ==
    /\ d_op = "tap"
    /\ serial_device # NoFd
    /\ Reconnect.result = "rd:False"
    /\ d_state = "returned"

ReconnectCommands == {"connect", "usb", "connect:raise", "usb:raise"}

\* C13: a reconnect_device call in serial mode issues the DHCP renewal once,
\* after su and a matched prompt and before one more prompt wait; its first
\* connect command comes only after that second prompt matched, no probe
\* comes earlier, and the retry cycles do not renew DHCP again: a call that
\* returns has issued exactly one renewal.
C13_DhcpOncePerReconnect ==
    LET rd == Reconnect
        body == rd.body
        dhcps == {i \in 1 .. Len(body) : body[i] = "dhcp"}
        later == {i \in 1 .. Len(body) :
                     body[i] \in ReconnectCommands \cup ProbeEvents \cup {"ls:raise"}}
    IN (rd.called /\ serial_device # NoFd) =>
          /\ dhcps \subseteq {3}
          /\ 3 \in dhcps =>
                (body[1] = "su" /\ body[2] = "expect:ok" /\ Len(body) >= 4
                    /\ body[4] \in {"expect:ok", "expect:fail"})
          /\ later # {} =>
                /\ Len(body) >= 5
                /\ SubSeq(body, 1, 4) = <<"su", "expect:ok", "dhcp", "expect:ok">>
                /\ \A i \in later : i >= 5
                /\ body[5] \in {"connect", "connect:raise"}
          /\ rd.result # "none" => dhcps = {3}

C13_Witness ==
    /\ serial_device # NoFd
    /\ is_usb
    /\ d_op = "reconnect_device"
    /\ d_state = "returned"
    /\ Reconnect.result = "rd:False"
    /\ Len(d_log) > 12

----------------------------------------------------------------------------
(* Repetition of a control command *)

\* the control command of an operation that sends one kind of command
ControlOf(op) ==
    CASE op = "press_nkey" -> "keyevent"
      [] op = "take_screenshot" -> "screencap"
      [] OTHER -> CommandOf(op)

\* positions of the log where cmd was sent and returned
Sends(cmd) == {i \in 1 .. Len(d_log) : d_log[i] = cmd}

\* the output of the command sent at position i had a failure marker
MarkedAt(i) == i < Len(d_log) /\ d_log[i + 1] = "marker"

ProbeAfter(i) == \E j \in i + 1 .. Len(d_log) : d_log[j] \in ProbeEvents

ReachableAfter(i) == \E j \in i + 1 .. Len(d_log) : d_log[j] = "ls:R"

\* a requested action has run to its end: the operation returned, or
\* press_nkey is back at its loop head after a key press
ActionComplete ==
    \/ d_state = "returned"
    \/ At("press_nkey", "loop") /\ Top.count >= 1

\* the control command is sent at most twice; after a first output with a
\* failure marker the probe is made once more, and the command is sent
\* twice exactly when that output had a marker and a probe after it was
\* Reachable
RetriesOnce(cmd) ==
    LET sends == Sends(cmd)
    IN /\ Cardinality(sends) <= 2
       /\ \A i \in sends :
             (\A k \in sends : i <= k) =>
                /\ MarkedAt(i) => ProbeAfter(i)
                /\ Cardinality(sends) = 2 <=> (MarkedAt(i) /\ ReachableAfter(i))

\* C14 as claimed: every device-facing operation that sends a control
\* command, tap and drag among them, repeats the probe and the command once
\* when the first output has a failure marker.
C14_EveryOperationRetriesOnce ==
    (ActionComplete /\ d_op \in SingleCommandOps \cup {"press_nkey"})
        => RetriesOnce(ControlOf(d_op))

\* C14 amended: press_nkey repeats the probe and the key event once per key
\* press when the first output has a failure marker (two key events exactly
\* when a probe after that output was Reachable); tap, drag,
\* get_specific_device_property and android_command send their command at
\* most once and issue nothing after it, whatever its output.
C14_OnlyPressNkeyRetries ==
    /\ d_op \in SingleCommandOps \cup {"press_nkey"}
          => Cardinality(Sends(ControlOf(d_op))) <= 2
    /\ (ActionComplete /\ d_op = "press_nkey") => RetriesOnce("keyevent")
    /\ d_op \in SingleCommandOps =>
          LET sends == Sends(CommandOf(d_op))
          IN /\ Cardinality(sends) <= 1
             /\ \A i \in sends : ~ProbeAfter(i) /\ d_state = "returned"

C14_Witness ==
    /\ d_op = "press_nkey"
    /\ At("press_nkey", "loop")
    /\ d_log = <<"ls:R", "keyevent", "marker", "ls:R", "keyevent">>

----------------------------------------------------------------------------
(* The connection mode and the serial descriptor *)

\* the mode reconnect_device dispatches on, lines 175-193
Mode ==
    IF serial_device # NoFd THEN "Serial"
    ELSE IF is_usb THEN "USB"
    ELSE "Network"

\* the first thing a reconnect_device call does in each mode
Dispatch(mode) ==
    CASE mode = "Serial" -> {"su", "console:raise"}
      [] mode = "USB" -> {"usb", "usb:raise"}
      [] mode = "Network" -> {"connect", "connect:raise"}

\* the constructor leaves serial_device None: a session is built in USB or
\* network mode
ConstructedMode == IF is_usb THEN "USB" ELSE "Network"

C16_DescriptorReleasedOnce ==
    /\ fd_fault # "double_close"
    /\ fd_fault # "use_after_close"
    /\ (d_op = "close_serial_device" /\ d_state = "returned") => open_fds = {}

----------------------------------------------------------------------------
(* Commands of one session in time *)

\* C17: while run_command supervises the command it spawned, no supervising
\* thread and no process of an earlier command, a timed-out one included, is
\* still running.
C17_NoConcurrentCommands ==
    InFrame => \A t \in 1 .. cur - 1 :
                  ~isAlive(t) /\ threads[t].proc # "running"

----------------------------------------------------------------------------
(* Termination of an operation *)

CountOf(events) == Cardinality({i \in 1 .. Len(d_log) : d_log[i] \in events})

\* C18: every call of an operation ends, returned (Done or SilentlySkipped)
\* or left by an exception that reaches the test, and issues a bounded
\* number of probes, reconnect commands and control commands for a requested
\* action on the way: at most 3 probes of _is_device_ok, each followed by at
\* most ReconnectLimit + 2 reconnect cycles, and at most 4 control commands.
C18_OperationTerminates ==
    /\ [](/\ CountOf(ProbeEvents) <= 3 * (ReconnectLimit + 3)
          /\ CountOf(ReconnectCommands) <= 3 * (ReconnectLimit + 2)
          /\ CountOf(ControlEvents \cup {"irsend"}) <= 4
          /\ Len(d_stack) <= 4)
    /\ (d_state = "running") ~> (d_state \in {"returned", "raised"})

C18_Witness ==
    /\ d_op = "handle_test_failure"
    /\ d_state = "returned"
    /\ CountOf(ProbeEvents) = 3 * (ReconnectLimit + 3)

----------------------------------------------------------------------------
(* press_ir_key without a remote *)

\* C19: a press_ir_key call on a session that has no IR remote ends with
\* DeviceInitializationError, whatever repeat is, and has executed no
\* command before it.
C19_NoRemoteRaisesAtOnce ==
    (d_op = "press_ir_key" /\ ir_remote = "None") =>
        /\ d_log = <<>>
        /\ d_state \in {"running", "raised"}
        /\ d_state = "raised" => d_error = "DeviceInitializationError"

----------------------------------------------------------------------------
(* The deadline of an attempt *)

\* the step appends outcome to attempt_log
Classifies(outcome) ==
    /\ Len(attempt_log') = Len(attempt_log) + 1
    /\ attempt_log'[Len(attempt_log')] = outcome

----------------------------------------------------------------------------
(* take_screenshot and reboot_device *)

\* C21: a take_screenshot call that sent the capture twice, each time with
\* run_command returning (a text or, after a timeout, None), raises nothing
\* and returns the path of the image.
C21_ScreenshotNeverRaises ==
    (/\ d_op = "take_screenshot"
     /\ d_state # "running"
     /\ Cardinality(Sends("screencap")) = 2)
        => (d_state = "returned" /\ d_ret = "path" /\ d_error = "none")

\* what reboot_device has issued when it reaches the settle wait
RebootIssued ==
    IF serial_device # NoFd
    THEN {<<"su", "expect:ok", "reboot", "expect:ok">>}
    ELSE {<<"reboot">>, <<"reboot", "marker">>}

----------------------------------------------------------------------------
(* Outcomes of run_command under every interleaving *)

\* C23: run_command raises AbortError only when the output retrieval of its
\* own attempt failed: a thread left over from an earlier command that sets
\* the error flag does not make a command whose own thread completed raise.
C23_AbortedOnlyByOwnFailure ==
    (rc_pc = "done" /\ rc_error = "AbortError") => threads[cur].failed

\* C24: under every interleaving of the caller and the supervising thread a
\* run_command call ends with the text of the command or None returned, or
\* with AbortError: no other exception leaves it.
C24_ThreeOutcomes ==
    rc_pc = "done" =>
        \/ rc_error = "AbortError"
        \/ rc_error = "none" /\ result.kind \in {"None", "str"}

\* C25: a run_command call with a timeout ends, returning or raising,
\* whatever the external process does, and the caller reaches t.join() only
\* for a thread it has seen finished.
C25_RunCommandReturns ==
    /\ [](rc_pc = "join" => ~isAlive(cur))
    /\ (rc_pc \notin {"idle", "done"} /\ timeout_time # NoTimeout)
          ~> (rc_pc = "done")

\* the call has ended while the thread of its attempt still waits in
\* communicate()
C25_Witness ==
    /\ rc_pc = "done"
    /\ timeout_time # NoTimeout
    /\ rc_error = "none"
    /\ result = None
    /\ cur > 0
    /\ threads[cur].pc = "communicate"

=============================================================================
